---- MODULE Spec2Model ----
(***************************************************************************)
(* Model of src/utils/errors.rs: the ServiceError taxonomy, the five       *)
(* From<upstream error> conversions and ResponseError::error_response.     *)
(*                                                                         *)
(* A text (Rust String / &str) is a sequence of one-character strings, so  *)
(* that letter case, JSON quoting and JSON escaping are all visible.       *)
(* An Option<T> is a sequence of length at most one: <<>> is None and      *)
(* <<t>> is Some(t).                                                       *)
(***************************************************************************)
EXTENDS Naturals, Sequences, FiniteSets, TLC

VARIABLES pc, error, service_error, response, prev

vars == <<pc, error, service_error, response, prev>>

(***************************************************************************)
(* Bounds of the model.                                                    *)
(***************************************************************************)
MaxTextLen == 2

\* Characters a backend-provided text is built from: a plain letter and the
\* two characters JSON string encoding has to escape.
Alphabet == {"a", "\"", "\\"}

RECURSIVE TextsOfLen(_)
TextsOfLen(n) ==
    IF n = 0 THEN {<<>>}
    ELSE {<<c>> \o t : c \in Alphabet, t \in TextsOfLen(n - 1)}

Text == UNION {TextsOfLen(n) : n \in 0..MaxTextLen}

OptText == {<<>>} \cup {<<t>> : t \in Text}

(***************************************************************************)
(* String literals of the source, character by character.                  *)
(***************************************************************************)
MailboxTag == <<"M", "a", "i", "l", "b", "o", "x">>

DatabaseTag == <<"d", "a", "t", "a", "b", "a", "s", "e">>

NotFoundMessage ==
    <<"r", "e", "q", "u", "e", "s", "t", "e", "d", " ",
      "r", "e", "c", "o", "r", "d", " ", "w", "a", "s", " ",
      "n", "o", "t", " ", "f", "o", "u", "n", "d">>

PoolTag == <<"p", "o", "o", "l">>

InvalidTokenMessage ==
    <<"I", "n", "v", "a", "l", "i", "d", " ", "T", "o", "k", "e", "n">>

InvalidIssuerMessage ==
    <<"I", "n", "v", "a", "l", "i", "d", " ", "I", "s", "s", "u", "e", "r">>

HarshPrefix == <<"h", "a", "r", "s", "h", " ">>

ErrorSuffix == <<" ", "e", "r", "r", "o", "r">>

HarshAlphabetLengthTag ==
    HarshPrefix
    \o <<"A", "l", "p", "h", "a", "b", "e", "t", "L", "e", "n", "g", "t", "h">>
    \o ErrorSuffix

HarshIllegalCharacterTag ==
    HarshPrefix
    \o <<"I", "l", "l", "e", "g", "a", "l",
         "C", "h", "a", "r", "a", "c", "t", "e", "r">>
    \o ErrorSuffix

HarshSeparatorTag ==
    HarshPrefix
    \o <<"S", "e", "p", "a", "r", "a", "t", "o", "r">>
    \o ErrorSuffix

UnauthorizedBody ==
    <<"U", "n", "a", "u", "t", "h", "o", "r", "i", "z", "e", "d">>

(***************************************************************************)
(* enum ServiceError                                                       *)
(***************************************************************************)
BadRequest(message) == [variant |-> "BadRequest", message |-> message]

Unauthorized == [variant |-> "Unauthorized"]

NotFound(message) == [variant |-> "NotFound", message |-> message]

InternalServerError(message) ==
    [variant |-> "InternalServerError", message |-> message]

(***************************************************************************)
(* The upstream error types the conversions consume.                       *)
(***************************************************************************)
MailboxErrorKinds == {"Closed", "Timeout"}

MailboxErrors == [domain : {"MailboxError"}, kind : MailboxErrorKinds]

DatabaseErrorKinds ==
    {"UniqueViolation", "ForeignKeyViolation", "UnableToSendCommand",
     "SerializationFailure", "__Unknown"}

\* DieselError::DatabaseError(kind, info): info.message() is always there,
\* info.details() is optional.
DieselDatabaseErrors ==
    [domain : {"DieselError"}, variant : {"DatabaseError"},
     kind : DatabaseErrorKinds, message : Text, details : OptText]

DieselBoxedVariants ==
    {"QueryBuilderError", "DeserializationError", "SerializationError"}

DieselUnitVariants == {"NotFound", "RollbackTransaction", "AlreadyInTransaction"}

DieselOtherErrors ==
    [domain : {"DieselError"}, variant : DieselBoxedVariants, message : Text]
    \cup [domain : {"DieselError"}, variant : DieselUnitVariants]

DieselErrors == DieselDatabaseErrors \cup DieselOtherErrors

\* r2d2's error wraps an optional backend message.
PoolErrors == [domain : {"PoolError"}, message : OptText]

JwtUnitKinds ==
    {"InvalidToken", "InvalidSignature", "ExpiredSignature", "InvalidIssuer",
     "InvalidAudience", "InvalidSubject", "ImmatureSignature",
     "InvalidAlgorithm"}

JwtWrappingKinds == {"Base64", "Json", "Utf8"}

JwtErrors ==
    [domain : {"JwtError"}, kind : JwtUnitKinds]
    \cup [domain : {"JwtError"}, kind : JwtWrappingKinds, message : Text]

HarshErrors ==
    [domain : {"HarshError"}, kind : {"AlphabetLength", "Separator"}]
    \cup [domain : {"HarshError"}, kind : {"IllegalCharacter"}, char : Alphabet]

Upstream ==
    MailboxErrors \cup DieselErrors \cup PoolErrors \cup JwtErrors
    \cup HarshErrors

(***************************************************************************)
(* HttpResponse builders and the JSON body.                                *)
(***************************************************************************)
\* serde_json's string encoding: '"' and '\' are written with a leading '\'.
RECURSIVE json_escape(_)
json_escape(s) ==
    IF s = <<>> THEN <<>>
    ELSE (IF Head(s) \in {"\"", "\\"} THEN <<"\\", Head(s)>> ELSE <<Head(s)>>)
         \o json_escape(Tail(s))

to_json_string(s) == <<"\"">> \o json_escape(s) \o <<"\"">>

\* HttpResponseBuilder::json(value): the body is the JSON document of value.
json(status, value) ==
    [status |-> status,
     content_type |-> "application/json",
     body |-> to_json_string(value)]

error_response_BadStatus(self) ==
    CASE self.variant = "InternalServerError" -> json(500, self.message)
      [] self.variant = "BadRequest" -> json(400, self.message)
      [] self.variant = "Unauthorized" -> json(401, UnauthorizedBody)
      [] self.variant = "NotFound" -> json(400, self.message)

\* impl ResponseError for ServiceError
error_response(self) ==
    CASE self.variant = "InternalServerError" -> json(500, self.message)
      [] self.variant = "BadRequest" -> json(400, self.message)
      [] self.variant = "Unauthorized" -> json(401, UnauthorizedBody)
      [] self.variant = "NotFound" -> json(404, self.message)

(***************************************************************************)
(* The conversions.                                                        *)
(***************************************************************************)
From_MailboxError_PoolTag(e) == InternalServerError(PoolTag)

\* impl From<MailboxError> for ServiceError
From_MailboxError(e) == InternalServerError(MailboxTag)

\* Option::unwrap_or_else
unwrap_or_else(opt, default) == IF opt = <<>> THEN default ELSE opt[1]

From_DieselError_MessageOnly(e) ==
    IF e.variant = "DatabaseError"
    THEN IF e.kind = "UniqueViolation"
         THEN BadRequest(e.message)
         ELSE InternalServerError(DatabaseTag)
    ELSE IF e.variant = "NotFound"
         THEN NotFound(NotFoundMessage)
         ELSE InternalServerError(DatabaseTag)

From_DieselError_LeakDetails(e) ==
    IF e.variant = "DatabaseError"
    THEN IF e.kind = "UniqueViolation"
         THEN BadRequest(unwrap_or_else(e.details, e.message))
         ELSE InternalServerError(unwrap_or_else(e.details, DatabaseTag))
    ELSE IF e.variant = "NotFound"
         THEN NotFound(NotFoundMessage)
         ELSE InternalServerError(DatabaseTag)

From_DieselError_NoNotFoundArm(e) ==
    IF e.variant = "DatabaseError"
    THEN IF e.kind = "UniqueViolation"
         THEN BadRequest(unwrap_or_else(e.details, e.message))
         ELSE InternalServerError(DatabaseTag)
    ELSE InternalServerError(DatabaseTag)

From_DieselError_DetailsRequired(e) ==
    IF e.variant = "DatabaseError"
    THEN IF e.kind = "UniqueViolation" /\ e.details # <<>>
         THEN BadRequest(e.details[1])
         ELSE InternalServerError(DatabaseTag)
    ELSE IF e.variant = "NotFound"
         THEN NotFound(NotFoundMessage)
         ELSE InternalServerError(DatabaseTag)

\* impl From<DieselError> for ServiceError
From_DieselError(e) ==
    IF e.variant = "DatabaseError"
    THEN IF e.kind = "UniqueViolation"
         THEN BadRequest(unwrap_or_else(e.details, e.message))
         ELSE InternalServerError(DatabaseTag)
    ELSE IF e.variant = "NotFound"
         THEN NotFound(NotFoundMessage)
         ELSE InternalServerError(DatabaseTag)

From_PoolError_Message(e) ==
    InternalServerError(unwrap_or_else(e.message, PoolTag))

\* impl From<PoolError> for ServiceError
From_PoolError(e) == InternalServerError(PoolTag)

From_JwtError_IssuerUnauthorized(e) ==
    CASE e.kind = "InvalidToken" -> BadRequest(InvalidTokenMessage)
      [] OTHER -> Unauthorized

\* impl From<JwtError> for ServiceError
From_JwtError(e) ==
    CASE e.kind = "InvalidToken" -> BadRequest(InvalidTokenMessage)
      [] e.kind = "InvalidIssuer" -> BadRequest(InvalidIssuerMessage)
      [] OTHER -> Unauthorized

From_HarshError_ShowChar(e) ==
    CASE e.kind = "AlphabetLength" ->
            InternalServerError(HarshAlphabetLengthTag)
      [] e.kind = "IllegalCharacter" ->
            InternalServerError(HarshIllegalCharacterTag \o <<" ", e.char>>)
      [] e.kind = "Separator" -> InternalServerError(HarshSeparatorTag)

From_HarshError_CopiedTag(e) ==
    CASE e.kind = "AlphabetLength" ->
            InternalServerError(HarshAlphabetLengthTag)
      [] e.kind = "IllegalCharacter" ->
            InternalServerError(HarshIllegalCharacterTag)
      [] e.kind = "Separator" -> InternalServerError(HarshAlphabetLengthTag)

\* impl From<HarshError> for ServiceError
From_HarshError(e) ==
    CASE e.kind = "AlphabetLength" ->
            InternalServerError(HarshAlphabetLengthTag)
      [] e.kind = "IllegalCharacter" ->
            InternalServerError(HarshIllegalCharacterTag)
      [] e.kind = "Separator" -> InternalServerError(HarshSeparatorTag)

\* e.into(): the impl is selected by the type of e.
Into(e) ==
    CASE e.domain = "MailboxError" -> From_MailboxError(e)
      [] e.domain = "DieselError" -> From_DieselError(e)
      [] e.domain = "PoolError" -> From_PoolError(e)
      [] e.domain = "JwtError" -> From_JwtError(e)
      [] e.domain = "HarshError" -> From_HarshError(e)

(***************************************************************************)
(* One request's path through the layer: an upstream call fails, the       *)
(* failure is converted by the From impl of its type, and the resulting    *)
(* ServiceError is rendered.  The same failure may occur a second time.    *)
(***************************************************************************)
NoError == [domain |-> "None"]

NoServiceError == [variant |-> "None"]

NoResponse == [status |-> 0]

Init ==
    /\ pc = "idle"
    /\ error = NoError
    /\ service_error = NoServiceError
    /\ response = NoResponse
    /\ prev = NoResponse

\* An upstream collaborator returns Err(e).
Fail ==
    /\ pc = "idle"
    /\ \E e \in Upstream : error' = e
    /\ pc' = "failed"
    /\ UNCHANGED <<service_error, response, prev>>

\* A handler builds a ServiceError directly; the enum and its variants are pub.
Construct ==
    /\ pc = "idle"
    /\ \E m \in Text :
          service_error' \in
              {BadRequest(m), Unauthorized, NotFound(m), InternalServerError(m)}
    /\ pc' = "converted"
    /\ UNCHANGED <<error, response, prev>>

Convert(domain, result) ==
    /\ pc = "failed"
    /\ error.domain = domain
    /\ service_error' = result
    /\ pc' = "converted"
    /\ UNCHANGED <<error, response, prev>>

FromMailboxError == Convert("MailboxError", From_MailboxError(error))

FromDieselError == Convert("DieselError", From_DieselError(error))

FromPoolError == Convert("PoolError", From_PoolError(error))

FromJwtError == Convert("JwtError", From_JwtError(error))

FromHarshError == Convert("HarshError", From_HarshError(error))

ErrorResponse ==
    /\ pc = "converted"
    /\ response' = error_response(service_error)
    /\ pc' = "responded"
    /\ UNCHANGED <<error, service_error, prev>>

\* An equal failure value occurs again; the first response is remembered.
Again ==
    /\ pc = "responded"
    /\ error # NoError
    /\ prev = NoResponse
    /\ prev' = response
    /\ service_error' = NoServiceError
    /\ response' = NoResponse
    /\ pc' = "failed"
    /\ UNCHANGED error

Finish ==
    /\ pc = "responded"
    /\ pc' = "idle"
    /\ error' = NoError
    /\ service_error' = NoServiceError
    /\ response' = NoResponse
    /\ prev' = NoResponse

Next ==
    \/ Fail
    \/ Construct
    \/ FromMailboxError
    \/ FromDieselError
    \/ FromPoolError
    \/ FromJwtError
    \/ FromHarshError
    \/ ErrorResponse
    \/ Again
    \/ Finish

Spec == Init /\ [][Next]_vars

(***************************************************************************)
(* Vocabulary of the properties.                                           *)
(***************************************************************************)
\* The conversion of the current upstream failure has run.
Converted == error # NoError /\ pc \in {"converted", "responded"}

Responded == pc = "responded"

IsDiesel == error.domain = "DieselError"

IsUniqueViolation ==
    /\ IsDiesel
    /\ error.variant = "DatabaseError"
    /\ error.kind = "UniqueViolation"

\* Reading a JSON document that is one string: [ok, value].
RECURSIVE json_unescape(_)
json_unescape(s) ==
    IF s = <<>> THEN [ok |-> TRUE, value |-> <<>>]
    ELSE IF Head(s) = "\""
         THEN [ok |-> FALSE, value |-> <<>>]
         ELSE IF Head(s) = "\\"
              THEN IF Len(s) < 2
                   THEN [ok |-> FALSE, value |-> <<>>]
                   ELSE LET r == json_unescape(Tail(Tail(s)))
                        IN  [ok |-> r.ok, value |-> <<s[2]>> \o r.value]
              ELSE LET r == json_unescape(Tail(s))
                   IN  [ok |-> r.ok, value |-> <<Head(s)>> \o r.value]

\* Some(text) when body is the JSON document of a string, None otherwise.
json_parse(body) ==
    IF Len(body) >= 2 /\ body[1] = "\"" /\ body[Len(body)] = "\""
    THEN LET r == json_unescape(SubSeq(body, 2, Len(body) - 1))
         IN  IF r.ok THEN <<r.value>> ELSE <<>>
    ELSE <<>>

\* The upstream failures that differ from x at most in backend-provided
\* detail: database message/details, wrapped error text, the illegal
\* character, the pool's or the mailbox's detail.
SameKind(x) ==
    CASE x.domain = "MailboxError" -> MailboxErrors
      [] x.domain = "PoolError" -> PoolErrors
      [] x.domain = "DieselError" ->
            IF x.variant = "DatabaseError"
            THEN [domain : {"DieselError"}, variant : {"DatabaseError"},
                  kind : {x.kind}, message : Text, details : OptText]
            ELSE IF x.variant \in DieselBoxedVariants
                 THEN [domain : {"DieselError"}, variant : {x.variant},
                       message : Text]
                 ELSE {x}
      [] x.domain = "JwtError" ->
            IF x.kind \in JwtWrappingKinds
            THEN [domain : {"JwtError"}, kind : {x.kind}, message : Text]
            ELSE {x}
      [] x.domain = "HarshError" ->
            IF x.kind = "IllegalCharacter"
            THEN [domain : {"HarshError"}, kind : {"IllegalCharacter"},
                  char : Alphabet]
            ELSE {x}

IsServiceError(s) ==
    \/ s = Unauthorized
    \/ /\ DOMAIN s = {"variant", "message"}
       /\ s.variant \in {"BadRequest", "NotFound", "InternalServerError"}
       /\ DOMAIN s.message = 1..Len(s.message)

IsRenderedResponse(r) ==
    /\ DOMAIN r = {"status", "content_type", "body"}
    /\ r.status \in {400, 401, 404, 500}
    /\ json_parse(r.body) # <<>>

(***************************************************************************)
(* C1: a data-store uniqueness violation converts to BadRequest carrying   *)
(* the failure's detail text when it has one, and its generic message text *)
(* when it has none.                                                       *)
(***************************************************************************)
C1_UniqueViolation ==
    (Converted /\ IsUniqueViolation) =>
        /\ error.details # <<>> => service_error = BadRequest(error.details[1])
        /\ error.details = <<>> => service_error = BadRequest(error.message)

C1_Witness ==
    /\ Converted
    /\ IsUniqueViolation
    /\ error.details # <<>>
    /\ error.details[1] # error.message
    /\ service_error = BadRequest(error.details[1])

(***************************************************************************)
(* C2: a token failure converts to BadRequest("Invalid Token") for kind    *)
(* InvalidToken, BadRequest("Invalid Issuer") for kind InvalidIssuer, and  *)
(* to Unauthorized, which carries no message, for every other kind.        *)
(***************************************************************************)
C2_Token ==
    (Converted /\ error.domain = "JwtError") =>
        /\ error.kind = "InvalidToken" =>
              service_error =
                  [variant |-> "BadRequest", message |-> InvalidTokenMessage]
        /\ error.kind = "InvalidIssuer" =>
              service_error =
                  [variant |-> "BadRequest", message |-> InvalidIssuerMessage]
        /\ error.kind \notin {"InvalidToken", "InvalidIssuer"} =>
              /\ service_error.variant = "Unauthorized"
              /\ DOMAIN service_error = {"variant"}

C2_Witness ==
    /\ Converted
    /\ error.domain = "JwtError"
    /\ error.kind = "InvalidIssuer"
    /\ service_error.variant = "BadRequest"

(***************************************************************************)
(* C3: every messaging failure, whatever its subkind, converts to exactly  *)
(* InternalServerError("mailbox") -- as claimed, with a lower-case tag.    *)
(***************************************************************************)
C3_Original ==
    (Converted /\ error.domain = "MailboxError") =>
        service_error =
            [variant |-> "InternalServerError",
             message |-> <<"m", "a", "i", "l", "b", "o", "x">>]

(***************************************************************************)
(* C3, amended: every messaging failure, whatever its subkind, converts to *)
(* exactly InternalServerError("Mailbox"), the tag being capitalised.      *)
(***************************************************************************)
C3_Amended ==
    (Converted /\ error.domain = "MailboxError") =>
        service_error =
            [variant |-> "InternalServerError",
             message |-> <<"M", "a", "i", "l", "b", "o", "x">>]

C3_Witness ==
    /\ Converted
    /\ error.domain = "MailboxError"
    /\ error.kind = "Timeout"
    /\ service_error.variant = "InternalServerError"

(***************************************************************************)
(* C4: a data-store failure that is neither a uniqueness violation nor     *)
(* record-not-found converts to exactly InternalServerError("database"),   *)
(* whatever its constraint kind and with or without detail text.           *)
(***************************************************************************)
C4_OtherDatabase ==
    (/\ Converted
     /\ IsDiesel
     /\ ~IsUniqueViolation
     /\ error.variant # "NotFound") =>
        service_error =
            [variant |-> "InternalServerError",
             message |-> <<"d", "a", "t", "a", "b", "a", "s", "e">>]

C4_Witness ==
    /\ Converted
    /\ IsDiesel
    /\ error.variant = "DatabaseError"
    /\ error.kind = "ForeignKeyViolation"
    /\ error.details # <<>>
    /\ error.details[1] # <<>>
    /\ service_error.variant = "InternalServerError"

(***************************************************************************)
(* C5: a data-store record-not-found failure converts to exactly           *)
(* NotFound("requested record was not found").                             *)
(***************************************************************************)
C5_NotFound ==
    (Converted /\ IsDiesel /\ error.variant = "NotFound") =>
        service_error =
            [variant |-> "NotFound",
             message |->
                <<"r", "e", "q", "u", "e", "s", "t", "e", "d", " ",
                  "r", "e", "c", "o", "r", "d", " ", "w", "a", "s", " ",
                  "n", "o", "t", " ", "f", "o", "u", "n", "d">>]

C5_Witness ==
    /\ Converted
    /\ IsDiesel
    /\ error.variant = "NotFound"
    /\ service_error.variant = "NotFound"

(***************************************************************************)
(* C6: every pool-acquisition failure, whatever it wraps, converts to      *)
(* exactly InternalServerError("pool").                                    *)
(***************************************************************************)
C6_Pool ==
    (Converted /\ error.domain = "PoolError") =>
        service_error =
            [variant |-> "InternalServerError",
             message |-> <<"p", "o", "o", "l">>]

C6_Witness ==
    /\ Converted
    /\ error.domain = "PoolError"
    /\ error.message # <<>>
    /\ error.message[1] # <<>>
    /\ service_error.variant = "InternalServerError"

(***************************************************************************)
(* C7: rendering maps BadRequest(msg) to status 400 with body msg,         *)
(* Unauthorized to status 401 with the fixed body "Unauthorized",          *)
(* NotFound(msg) to status 404 with body msg and InternalServerError(msg)  *)
(* to status 500 with body msg; the body is a JSON document whose value is *)
(* the carried message, unchanged.                                         *)
(***************************************************************************)
C7_Render ==
    Responded =>
        /\ response.content_type = "application/json"
        /\ service_error.variant \in
              {"BadRequest", "Unauthorized", "NotFound", "InternalServerError"}
        /\ service_error.variant = "BadRequest" =>
              /\ response.status = 400
              /\ json_parse(response.body) = <<service_error.message>>
        /\ service_error.variant = "Unauthorized" =>
              /\ response.status = 401
              /\ json_parse(response.body) =
                    <<<<"U", "n", "a", "u", "t", "h", "o", "r", "i", "z", "e", "d">>>>
        /\ service_error.variant = "NotFound" =>
              /\ response.status = 404
              /\ json_parse(response.body) = <<service_error.message>>
        /\ service_error.variant = "InternalServerError" =>
              /\ response.status = 500
              /\ json_parse(response.body) = <<service_error.message>>

\* A NotFound whose message needs escaping has been rendered.
C7_Witness ==
    /\ Responded
    /\ service_error.variant = "NotFound"
    /\ response.status = 404
    /\ Len(response.body) > Len(service_error.message) + 2

(***************************************************************************)
(* C8: when an upstream failure converts to InternalServerError or         *)
(* Unauthorized, the rendered body is one of a fixed finite set of         *)
(* literals, and every failure that differs from it only in                *)
(* backend-provided text renders to the identical response.                *)
(***************************************************************************)
FixedBodies ==
    {MailboxTag, DatabaseTag, PoolTag, UnauthorizedBody,
     HarshAlphabetLengthTag, HarshIllegalCharacterTag, HarshSeparatorTag}

C8_NoDisclosure ==
    (/\ Converted
     /\ Responded
     /\ service_error.variant \in {"InternalServerError", "Unauthorized"}) =>
        /\ \E b \in FixedBodies : json_parse(response.body) = <<b>>
        /\ \A y \in SameKind(error) : error_response(Into(y)) = response

\* A database error with detail text that is not a uniqueness violation.
C8_Witness ==
    /\ Converted
    /\ Responded
    /\ IsDiesel
    /\ error.variant = "DatabaseError"
    /\ error.kind = "__Unknown"
    /\ error.message # <<>>
    /\ error.details # <<>>
    /\ response.status = 500

(***************************************************************************)
(* C9: each of the encoder's three failure kinds converts to               *)
(* InternalServerError; the tag is fixed per kind (it does not depend on   *)
(* the illegal character) and the three tags are pairwise distinct.        *)
(***************************************************************************)
C9_Encoder ==
    (Converted /\ error.domain = "HarshError") =>
        /\ service_error.variant = "InternalServerError"
        /\ \A y \in HarshErrors :
              /\ y.kind = error.kind => From_HarshError(y) = service_error
              /\ y.kind # error.kind =>
                    From_HarshError(y).message # service_error.message

C9_Witness ==
    /\ Converted
    /\ error.domain = "HarshError"
    /\ error.kind = "IllegalCharacter"
    /\ service_error.variant = "InternalServerError"

(***************************************************************************)
(* C10: totality and determinism.  Every upstream failure has a conversion *)
(* that applies and yields one well-formed ServiceError variant, which     *)
(* then renders to a well-formed response; failures of the same kind yield *)
(* the same variant; and an equal failure occurring again yields an equal  *)
(* ServiceError and an equal response.                                     *)
(***************************************************************************)
C10_TotalDeterministic ==
    /\ pc = "failed" =>
          ENABLED (FromMailboxError \/ FromDieselError \/ FromPoolError
                   \/ FromJwtError \/ FromHarshError)
    /\ pc = "converted" => ENABLED ErrorResponse
    /\ pc \in {"converted", "responded"} => IsServiceError(service_error)
    /\ Responded => IsRenderedResponse(response)
    /\ Converted =>
          /\ service_error = Into(error)
          /\ \A y \in SameKind(error) : Into(y).variant = service_error.variant
    /\ (Responded /\ prev # NoResponse) => response = prev

\* The second occurrence of a uniqueness violation has been rendered.
C10_Witness ==
    /\ Converted
    /\ Responded
    /\ prev # NoResponse
    /\ IsUniqueViolation
    /\ error.details = <<>>
    /\ response = prev

====
